---- MODULE Spec2Model ----
(***************************************************************************)
(* Model of libmacchina's installed-tool counters, src/shared/cargo.rs and *)
(* src/shared/uv.rs: count_cargo, count_uv and the uv_dirs helpers.        *)
(*                                                                         *)
(* State: the process environment (env), the filesystem as seen through    *)
(* std::fs::read_dir (fs), the platform the crate was built for and what   *)
(* the OS knows about the user (platform), the value returned by the last  *)
(* call (ret), and a result a caller has written down (noted).            *)
(*                                                                         *)
(* An OsString / PathBuf is a sequence of tokens: a token is a separator   *)
(* ("/" or "\\"), a Windows drive prefix ("C:") or a name without          *)
(* separators.  "/h/.local/share/" is <<"/","h","/",".local","/","share",  *)
(* "/">> and the empty string is <<>>.                                     *)
(***************************************************************************)
EXTENDS Integers, Sequences, FiniteSets, TLC

VARIABLES platform, env, fs, ret, noted

vars == <<platform, env, fs, ret, noted>>

---------------------------------------------------------------------------
(* Option<T> and Result<T, E> *)

None == [tag |-> "None"]

Some(v) == [tag |-> "Some", val |-> v]

is_some(o) == o.tag = "Some"

Ok(v) == [tag |-> "Ok", val |-> v]

Err(e) == [tag |-> "Err", err |-> e]

is_ok(r) == r.tag = "Ok"

---------------------------------------------------------------------------
(* Bounds of the model *)

\* directories (or files in their place) that exist at once, resolution runs
MaxDirs == 2

\* directory entries that exist at once, resolution runs
MaxEntries == 2

\* items one directory listing yields, listing runs
MaxListEntries == 3

---------------------------------------------------------------------------
(* Paths *)

IsWindows(c) == c.os = "windows"

Drives == {"C:"}

is_separator(c, t) == IF IsWindows(c) THEN t \in {"/", "\\"} ELSE t = "/"

MAIN_SEPARATOR(c) == IF IsWindows(c) THEN "\\" ELSE "/"

\* OsString::is_empty
is_empty(s) == Len(s) = 0

\* Path::is_absolute: a root on Unix, a drive prefix and a root on Windows
is_absolute(c, p) ==
  IF IsWindows(c)
    THEN Len(p) >= 2 /\ p[1] \in Drives /\ is_separator(c, p[2])
    ELSE Len(p) >= 1 /\ p[1] = "/"

\* Path::join (PathBuf::push): an absolute component replaces the path; else
\* it is appended, after a separator unless the path is empty or ends in one.
\* Nothing is normalised: ".." stays in the path.
join(c, p, comp) ==
  IF is_absolute(c, comp) THEN comp
  ELSE IF is_empty(p) \/ is_separator(c, p[Len(p)]) THEN p \o comp
  ELSE p \o <<MAIN_SEPARATOR(c)>> \o comp

\* an absolute path of one name, in the platform's syntax
Abs(c, n) == IF IsWindows(c) THEN <<"C:", "\\", n>> ELSE <<"/", n>>

---------------------------------------------------------------------------
(* Environment *)

XDG_BIN_HOME == "XDG_BIN_HOME"

XDG_DATA_HOME == "XDG_DATA_HOME"

EnvVars ==
  {"UV_TOOL_DIR", "UV_TOOL_BIN_DIR", XDG_DATA_HOME, XDG_BIN_HOME,
   "HOME", "USERPROFILE", "APPDATA", "CARGO_HOME"}

\* std::env::var_os
var_os(e, name) == e[name]

HomeVar(c) == IF IsWindows(c) THEN "USERPROFILE" ELSE "HOME"

\* etcetera::home_dir: the home variable when set and non-empty, else what
\* the OS records for the user, else an error
home_dir(e, c) ==
  LET v == var_os(e, HomeVar(c))
  IN IF is_some(v) /\ ~is_empty(v.val) THEN Ok(v.val)
     ELSE IF is_some(c.os_home) THEN Ok(c.os_home.val)
     ELSE Err("HomeDirError")

---------------------------------------------------------------------------
(* Option combinators *)

\* Option::map with a closure that joins one component: .map(|p| p.join(comp))
map_join(c, o, comp) == IF is_some(o) THEN Some(join(c, o.val, comp)) ELSE None

\* Result::ok
ok(r) == IF is_ok(r) THEN Some(r.val) ELSE None

---------------------------------------------------------------------------
(* mod uv_dirs *)

\* fn parse_path: any non-empty value, relative or absolute
parse_path(path) == IF is_empty(path) THEN None ELSE Some(path)

\* parse_xdg_path with parse_path's test: any non-empty value is accepted
parse_xdg_path_nonempty(c, path) == IF is_empty(path) THEN None ELSE Some(path)

\* fn parse_xdg_path: absolute values only
parse_xdg_path(c, path) == IF is_absolute(c, path) THEN Some(path) ELSE None

\* std::env::var_os(name).and_then(parse_xdg_path)
xdg_var(e, c, name) ==
  IF is_some(var_os(e, name)) THEN parse_xdg_path(c, var_os(e, name).val) ELSE None

\* etcetera::base_strategy::choose_base_strategy: Windows on Windows, Xdg
\* everywhere else; fails when the home directory is unknown
choose_base_strategy(e, c) ==
  LET h == home_dir(e, c)
  IN IF is_ok(h)
       THEN Ok([kind |-> IF IsWindows(c) THEN "Windows" ELSE "Xdg", home |-> h.val])
       ELSE h

\* etcetera::base_strategy::choose_native_strategy: Windows on Windows, Apple
\* on macOS, Xdg elsewhere; fails when the home directory is unknown
choose_native_strategy(e, c) ==
  LET h == home_dir(e, c)
  IN IF is_ok(h)
       THEN Ok([kind |-> CASE c.os = "windows" -> "Windows"
                           [] c.os = "macos" -> "Apple"
                           [] OTHER -> "Xdg",
                home |-> h.val])
       ELSE h

\* BaseStrategy::data_dir.
\*   Xdg:     $XDG_DATA_HOME when it is set to an absolute path, else
\*            <home>/.local/share/
\*   Apple:   <home>/Library/Application Support/
\*   Windows: %APPDATA% when set and non-empty, else <home>\AppData\Roaming
data_dir(e, c, dirs) ==
  CASE dirs.kind = "Xdg" ->
         LET x == xdg_var(e, c, XDG_DATA_HOME)
         IN IF is_some(x) THEN x.val
            ELSE join(c, dirs.home, <<".local", "/", "share", "/">>)
    [] dirs.kind = "Apple" ->
         join(c, dirs.home, <<"Library", "/", "Application Support", "/">>)
    [] OTHER ->
         LET a == var_os(e, "APPDATA")
         IN IF is_some(a) /\ ~is_empty(a.val) THEN a.val
            ELSE join(c, join(c, dirs.home, <<"AppData">>), <<"Roaming">>)

\* pub fn user_state_dir
user_state_dir(e, c) ==
  LET dirs == ok(choose_base_strategy(e, c))
  IN IF is_some(dirs) THEN Some(join(c, data_dir(e, c, dirs.val), <<"uv">>)) ELSE None

\* pub fn legacy_user_state_dir
legacy_user_state_dir(e, c) ==
  LET dirs == ok(choose_native_strategy(e, c))
      dir == IF is_some(dirs) THEN Some(join(c, data_dir(e, c, dirs.val), <<"uv">>)) ELSE None
  IN IF IsWindows(c) THEN map_join(c, dir, <<"data">>) ELSE dir

\* pub fn user_executable_directory; override_variable is None or Some(name)
user_executable_directory(override_variable, e, c) ==
  LET v1 == IF is_some(override_variable) THEN var_os(e, override_variable.val) ELSE None
      o1 == IF is_some(v1) THEN parse_path(v1.val) ELSE None
      o2 == xdg_var(e, c, XDG_BIN_HOME)
      o3 == map_join(c, xdg_var(e, c, XDG_DATA_HOME), <<"..", "/", "bin">>)
      o4 == map_join(c, map_join(c, ok(home_dir(e, c)), <<".local">>), <<"bin">>)
  IN IF is_some(o1) THEN o1
     ELSE IF is_some(o2) THEN o2
     ELSE IF is_some(o3) THEN o3
     ELSE o4

---------------------------------------------------------------------------
(* Filesystem *)

\* What a ReadDir iterator yields: an io::Error, or a DirEntry whose
\* file_type() is a directory, something else, or fails.
EntErr == Err("io")

EntDir == Ok([file_type |-> Ok("dir")])

EntFile == Ok([file_type |-> Ok("file")])

EntUnknown == Ok([file_type |-> Err("io")])

Items == {EntErr, EntDir, EntFile, EntUnknown}

NoFs == [p \in {} |-> None]

\* std::fs::read_dir(path): fs maps the path strings at which something exists
\* to what is there; every other path, the empty path included, is not found.
read_dir(f, path) ==
  IF path \notin DOMAIN f THEN Err("NotFound")
  ELSE CASE f[path].mode = "dir" -> Ok(f[path].entries)
         [] f[path].mode = "file" -> Err("NotADirectory")
         [] OTHER -> Err("PermissionDenied")

---------------------------------------------------------------------------
(* count_uv *)

\* FileType::is_dir
is_dir(t) == t = "dir"

\* the filter closure without is_dir: any entry whose type is known counts
is_tool_any_type(entry) == is_ok(entry.file_type)

\* uv.rs, the filter closure: e.file_type().map(|t| t.is_dir()).unwrap_or(false)
is_tool(entry) == IF is_ok(entry.file_type) THEN is_dir(entry.file_type.val) ELSE FALSE

\* entries.filter_map(Result::ok).filter(..).count()
count_tools(entries) ==
  Len(SelectSeq(SelectSeq(entries, is_ok), LAMBDA r : is_tool(r.val)))

\* tools_dir with the trailing "tools" component put on the override too
tools_dir_join_override(e, c) ==
  LET ov == var_os(e, "UV_TOOL_DIR")
      usd == user_state_dir(e, c)
      leg == legacy_user_state_dir(e, c)
      state == IF is_some(ov) THEN ov ELSE IF is_some(usd) THEN usd ELSE leg
  IN [dir |-> map_join(c, state, <<"tools">>),
      consulted |-> IF is_some(ov) THEN {"UV_TOOL_DIR"}
                    ELSE {"UV_TOOL_DIR", "user_state_dir"}
                           \cup (IF is_some(usd) THEN {} ELSE {"legacy_user_state_dir"})]

\* uv.rs, let tools_dir = ...: the directory and the sources evaluated for it
\* (or_else is lazy: a source is evaluated only when those before it gave None)
tools_dir(e, c) ==
  LET ov == var_os(e, "UV_TOOL_DIR")
      usd == user_state_dir(e, c)
      leg == legacy_user_state_dir(e, c)
      state == IF is_some(usd) THEN usd ELSE leg
  IN IF is_some(ov)
       THEN [dir |-> ov, consulted |-> {"UV_TOOL_DIR"}]
       ELSE [dir |-> map_join(c, state, <<"tools">>),
             consulted |-> {"UV_TOOL_DIR", "user_state_dir"}
                             \cup (IF is_some(usd) THEN {} ELSE {"legacy_user_state_dir"})]

\* the final test left out: a count of zero is returned as Some(0)
some_even_zero(count) == Some(count)

\* uv.rs, if count == 0 { None } else { Some(count) }
some_unless_zero(count) == IF count = 0 THEN None ELSE Some(count)

\* count_uv with a process-wide cell holding the last count, shared by the
\* two counters and read before the directory is listed
count_uv_cached(e, f, c) ==
  LET t == tools_dir(e, c)
      entries == IF is_some(t.dir) THEN ok(read_dir(f, t.dir.val)) ELSE None
  IN [fn |-> "count_uv",
      val |-> IF ret.fn = "count_cargo" /\ is_some(ret.val) THEN ret.val
              ELSE IF is_some(entries) THEN some_unless_zero(count_tools(entries.val))
              ELSE None,
      listed |-> t.dir,
      consulted |-> t.consulted]

\* pub(crate) fn count_uv: the value returned, with the directory handed to
\* read_dir (None when `?` returned before it) and the sources evaluated
count_uv(e, f, c) ==
  LET t == tools_dir(e, c)
  IN IF ~is_some(t.dir)
       THEN [fn |-> "count_uv", val |-> None, listed |-> None, consulted |-> t.consulted]
       ELSE LET entries == ok(read_dir(f, t.dir.val))
            IN [fn |-> "count_uv",
                val |-> IF is_some(entries)
                          THEN some_unless_zero(count_tools(entries.val))
                          ELSE None,
                listed |-> t.dir,
                consulted |-> t.consulted]

---------------------------------------------------------------------------
(* count_cargo *)

\* std::env::current_dir
current_dir(c) == Ok(Abs(c, "w"))

\* home::cargo_home: $CARGO_HOME when set and non-empty (a relative value is
\* joined to the current directory), else <home>/.cargo
cargo_home(e, c) ==
  LET v == var_os(e, "CARGO_HOME")
      h == home_dir(e, c)
      cwd == current_dir(c)
  IN IF is_some(v) /\ ~is_empty(v.val)
       THEN IF is_absolute(c, v.val) THEN Ok(v.val)
            ELSE IF is_ok(cwd) THEN Ok(join(c, cwd.val, v.val)) ELSE cwd
       ELSE IF is_ok(h) THEN Ok(join(c, h.val, <<".cargo">>)) ELSE h

\* count with a file-type filter: only regular files count as binaries
count_items_files_only(entries) == Len(SelectSeq(entries, LAMBDA r : r = EntFile))

\* cargo.rs, read_dir.count(): Iterator::count counts every item the iterator
\* yields, the Err items with the Ok ones
count_items(entries) == Len(entries)

\* cargo.rs, match read_dir.count() { 0 => None, pkgs => Some(pkgs) }
match_count(pkgs) == IF pkgs = 0 THEN None ELSE Some(pkgs)

\* count_cargo with the listing's failure defaulted: read_dir(bin) that fails
\* counts as no entries and the count is returned as it is
count_cargo_default(e, f, c) ==
  LET bin == map_join(c, ok(cargo_home(e, c)), <<"bin">>)
      entries == IF is_some(bin) THEN ok(read_dir(f, bin.val)) ELSE None
  IN [fn |-> "count_cargo",
      val |-> IF is_some(entries) THEN match_count(count_items(entries.val))
              ELSE Some(0),
      listed |-> bin]

\* pub(crate) fn count_cargo
count_cargo(e, f, c) ==
  LET bin == map_join(c, ok(cargo_home(e, c)), <<"bin">>)
  IN IF ~is_some(bin)
       THEN [fn |-> "count_cargo", val |-> None, listed |-> None]
       ELSE LET entries == ok(read_dir(f, bin.val))
            IN [fn |-> "count_cargo",
                val |-> IF is_some(entries)
                          THEN match_count(count_items(entries.val))
                          ELSE None,
                listed |-> bin]

---------------------------------------------------------------------------
(* The platforms and the inputs the runs draw from *)

\* os: what cfg!(windows) and etcetera's strategy choice see; os_home: the
\* home directory the OS records for the user (passwd entry, known folder)
Platforms ==
  {[os |-> "linux", os_home |-> None],
   [os |-> "macos", os_home |-> Some(<<"/", "p">>)],
   [os |-> "windows", os_home |-> Some(<<"C:", "\\", "p">>)]}

NoEnv == [v \in EnvVars |-> None]

Idle == [fn |-> "idle"]

\* The runs: "resolve" varies what directory resolution reads, "list" varies
\* what a listing yields, "exec" varies what user_executable_directory reads,
\* "hist" is a small world with a caller that writes results down.
UVars(u, c) ==
  CASE u = "resolve" ->
         IF IsWindows(c) THEN {"UV_TOOL_DIR", "APPDATA", "USERPROFILE"}
         ELSE {"UV_TOOL_DIR", XDG_DATA_HOME, "HOME"}
    [] u = "list" -> {"UV_TOOL_DIR", "CARGO_HOME"}
    [] u = "exec" -> {"UV_TOOL_BIN_DIR", XDG_BIN_HOME, XDG_DATA_HOME, HomeVar(c)}
    [] OTHER -> {"UV_TOOL_DIR", "CARGO_HOME"}

UValues(u, c, v) ==
  CASE v = "UV_TOOL_DIR" ->
         IF u = "resolve" THEN {<<>>, <<"t">>, Abs(c, "t")} ELSE {Abs(c, "t")}
    [] v = "UV_TOOL_BIN_DIR" -> {<<>>, <<"tb">>}
    [] v = XDG_DATA_HOME -> {<<"x">>, Abs(c, "x")}
    [] v = XDG_BIN_HOME -> {<<"b">>, Abs(c, "b")}
    [] v = "CARGO_HOME" -> IF u = "list" THEN {<<"c">>, Abs(c, "c")} ELSE {Abs(c, "c")}
    [] v = "APPDATA" -> {Abs(c, "a")}
    [] OTHER -> {Abs(c, "h")}

\* environments that differ in the variables the state directories depend on
Probes(c) ==
  {[NoEnv EXCEPT ![XDG_DATA_HOME] = x, ![HomeVar(c)] = h, !["APPDATA"] = a] :
     x \in {None, Some(Abs(c, "x"))},
     h \in {None, Some(Abs(c, "h"))},
     a \in {None, Some(Abs(c, "a"))}}

\* the `tools` directory of the preferred and of the legacy state directory
preferred_tools(e, c) == map_join(c, user_state_dir(e, c), <<"tools">>)

legacy_tools(e, c) == map_join(c, legacy_user_state_dir(e, c), <<"tools">>)

Vals(S) == {o.val : o \in {x \in S : is_some(x)}}

UvDirs(c) ==
  {<<"t">>, Abs(c, "t")}
    \cup Vals({preferred_tools(e, c) : e \in Probes(c)})
    \cup Vals({legacy_tools(e, c) : e \in Probes(c)})

CargoDirs(u, c) ==
  Vals({count_cargo([NoEnv EXCEPT !["CARGO_HOME"] = v], NoFs, c).listed :
          v \in {None} \cup {Some(s) : s \in UValues(u, c, "CARGO_HOME")}})

UDirs(u, c) ==
  CASE u = "resolve" -> UvDirs(c)
    [] u = "list" ->
         {Abs(c, "t")} \cup CargoDirs(u, c) \cup Vals({preferred_tools(NoEnv, c)})
    [] u = "exec" -> {}
    [] OTHER -> {Abs(c, "t"), join(c, Abs(c, "c"), <<"bin">>)}

UModes(u) == IF u = "list" THEN {"dir", "file", "noperm"} ELSE {"dir"}

UItems(u) == IF u = "list" THEN Items ELSE {EntDir}

RECURSIVE TotalEntries(_, _)
TotalEntries(f, D) ==
  IF D = {} THEN 0
  ELSE LET p == CHOOSE q \in D : TRUE
       IN Len(f[p].entries) + TotalEntries(f, D \ {p})

\* a listing run has one directory (or something in its place) at a time
DirRoom(u, f) ==
  IF u = "list" THEN DOMAIN f = {} ELSE Cardinality(DOMAIN f) < MaxDirs

EntryRoom(u, f, p) ==
  IF u = "list" THEN Len(f[p].entries) < MaxListEntries
  ELSE TotalEntries(f, DOMAIN f) < MaxEntries

---------------------------------------------------------------------------
(* Actions *)

Init ==
  /\ platform \in Platforms
  /\ env = NoEnv
  /\ fs = NoFs
  /\ ret = Idle
  /\ noted = None

\* the environment changes: a variable is set
SetVar(u) ==
  \E v \in UVars(u, platform) : \E s \in UValues(u, platform, v) :
    /\ env[v] # Some(s)
    /\ env' = [env EXCEPT ![v] = Some(s)]
    /\ ret' = Idle
    /\ UNCHANGED <<platform, fs, noted>>

\* the environment changes: a variable is removed
RemoveVar(u) ==
  \E v \in UVars(u, platform) :
    /\ is_some(env[v])
    /\ env' = [env EXCEPT ![v] = None]
    /\ ret' = Idle
    /\ UNCHANGED <<platform, fs, noted>>

\* the filesystem changes: an empty directory, a regular file or a directory
\* without read permission appears at a path
Create(u) ==
  \E p \in UDirs(u, platform) \ DOMAIN fs : \E m \in UModes(u) :
    /\ DirRoom(u, fs)
    /\ fs' = [q \in DOMAIN fs \cup {p} |->
                IF q = p THEN [mode |-> m, entries |-> <<>>] ELSE fs[q]]
    /\ ret' = Idle
    /\ UNCHANGED <<platform, env, noted>>

\* the filesystem changes: what is at a path disappears
Remove ==
  \E p \in DOMAIN fs :
    /\ fs' = [q \in DOMAIN fs \ {p} |-> fs[q]]
    /\ ret' = Idle
    /\ UNCHANGED <<platform, env, noted>>

\* the filesystem changes: a listing of a directory yields one more item
AddEntry(u) ==
  \E p \in DOMAIN fs : \E it \in UItems(u) :
    /\ fs[p].mode = "dir"
    /\ EntryRoom(u, fs, p)
    /\ fs' = [fs EXCEPT ![p].entries = Append(@, it)]
    /\ ret' = Idle
    /\ UNCHANGED <<platform, env, noted>>

\* the filesystem changes: a listing of a directory yields one item less
RemoveEntry ==
  \E p \in DOMAIN fs : \E i \in 1..Len(fs[p].entries) :
    /\ fs' = [fs EXCEPT ![p].entries =
                SubSeq(@, 1, i - 1) \o SubSeq(@, i + 1, Len(@))]
    /\ ret' = Idle
    /\ UNCHANGED <<platform, env, noted>>

\* a call of count_uv()
CountUv ==
  /\ ret' = count_uv(env, fs, platform)
  /\ UNCHANGED <<platform, env, fs, noted>>

\* a call of count_cargo()
CountCargo ==
  /\ ret' = count_cargo(env, fs, platform)
  /\ UNCHANGED <<platform, env, fs, noted>>

\* a call of uv_dirs::user_executable_directory(override_variable)
UserExecutableDirectory ==
  \E ov \in {None, Some("UV_TOOL_BIN_DIR")} :
    /\ ret' = [fn |-> "user_executable_directory", arg |-> ov,
               val |-> user_executable_directory(ov, env, platform)]
    /\ UNCHANGED <<platform, env, fs, noted>>

\* the caller writes down the result it was just given, with the environment
\* and filesystem it was given for (it keeps one such note)
Observe ==
  /\ ret.fn \in {"count_uv", "count_cargo"}
  /\ noted = None
  /\ noted' = Some([env |-> env, fs |-> fs, fn |-> ret.fn, val |-> ret.val])
  /\ UNCHANGED <<platform, env, fs, ret>>

Next ==
  \/ SetVar("resolve")
  \/ RemoveVar("resolve")
  \/ Create("resolve")
  \/ Remove
  \/ AddEntry("resolve")
  \/ RemoveEntry
  \/ CountUv

Spec == Init /\ [][Next]_vars

NextList ==
  \/ SetVar("list")
  \/ RemoveVar("list")
  \/ Create("list")
  \/ Remove
  \/ AddEntry("list")
  \/ RemoveEntry
  \/ CountUv
  \/ CountCargo

SpecList == Init /\ [][NextList]_vars

NextExec ==
  \/ SetVar("exec")
  \/ RemoveVar("exec")
  \/ UserExecutableDirectory
  \/ CountUv

SpecExec == Init /\ [][NextExec]_vars

NextHist ==
  \/ SetVar("hist")
  \/ RemoveVar("hist")
  \/ Create("hist")
  \/ Remove
  \/ AddEntry("hist")
  \/ RemoveEntry
  \/ CountUv
  \/ CountCargo
  \/ Observe

SpecHist == Init /\ [][NextHist]_vars

---------------------------------------------------------------------------
(* Properties *)

Called(f) == ret.fn = f

Counted == ret.fn \in {"count_uv", "count_cargo"}

\* something a listing can be taken of is at the path
Listable(f, p) == p \in DOMAIN f /\ f[p].mode = "dir"

\* how many items of a listing are the given one
Occurrences(entries, it) == Cardinality({i \in 1..Len(entries) : entries[i] = it})

\* how many items of a listing count as installed for the counter
Qualifying(f, entries) ==
  IF f = "count_uv" THEN Occurrences(entries, EntDir) ELSE Len(entries)

\* C1: count_cargo and count_uv return None or a count of at least 1, never
\* Some(0); a directory that is listed and holds no qualifying entry gives None.
C1_NoneOrPositive ==
  Counted =>
    /\ ret.val = None \/ ret.val.val >= 1
    /\ (is_some(ret.listed) /\ Listable(fs, ret.listed.val)
          /\ Qualifying(ret.fn, fs[ret.listed.val].entries) = 0)
         => ret.val = None

C1_Witness ==
  /\ Called("count_uv")
  /\ is_some(ret.listed) /\ Listable(fs, ret.listed.val)
  /\ Occurrences(fs[ret.listed.val].entries, EntFile) >= 1
  /\ ret.val = None

\* C2: with UV_TOOL_DIR set to a non-empty value, count_uv lists exactly that
\* value, whatever the other variables and the platform are, and evaluates
\* neither state directory.
C2_OverrideVerbatim ==
  (Called("count_uv") /\ is_some(env["UV_TOOL_DIR"]) /\ env["UV_TOOL_DIR"].val # <<>>)
    => /\ ret.listed = env["UV_TOOL_DIR"]
       /\ ret.consulted = {"UV_TOOL_DIR"}

C2_Witness ==
  /\ Called("count_uv")
  /\ env["UV_TOOL_DIR"] = Some(<<"t">>)
  /\ is_some(env[XDG_DATA_HOME]) /\ is_some(env["HOME"])
  /\ ret.val = Some(1)

\* C3: when the uv tools directory can be listed, the count is the number of
\* its entries that are directories; nothing else is counted.
C3_OnlyDirectories ==
  (Called("count_uv") /\ is_some(ret.listed) /\ Listable(fs, ret.listed.val))
    => LET n == Occurrences(fs[ret.listed.val].entries, EntDir)
       IN IF n = 0 THEN ret.val = None ELSE ret.val = Some(n)

C3_Witness ==
  /\ Called("count_uv")
  /\ is_some(ret.listed) /\ Listable(fs, ret.listed.val)
  /\ Occurrences(fs[ret.listed.val].entries, EntDir) = 2
  /\ Occurrences(fs[ret.listed.val].entries, EntFile) = 1
  /\ ret.val = Some(2)

\* C4: when the cargo home resolves and <cargo home>/bin is listed with N >= 1
\* entries, count_cargo returns N, whatever the entries' file types are.
C4_EveryBinEntry ==
  LET home == cargo_home(env, platform)
  IN (Called("count_cargo") /\ is_ok(home))
       => LET bin == home.val \o <<MAIN_SEPARATOR(platform), "bin">>
          IN /\ ret.listed = Some(bin)
             /\ (Listable(fs, bin) /\ Len(fs[bin].entries) >= 1)
                  => ret.val = Some(Len(fs[bin].entries))

C4_Witness ==
  /\ Called("count_cargo")
  /\ is_some(ret.listed) /\ Listable(fs, ret.listed.val)
  /\ Occurrences(fs[ret.listed.val].entries, EntDir) = 1
  /\ Occurrences(fs[ret.listed.val].entries, EntFile) = 2
  /\ ret.val = Some(3)

\* C5: when the tool directory cannot be resolved, or cannot be opened for
\* listing (nothing there, no permission, not a directory), both counters
\* return None.
C5_FailureIsNone ==
  LET dir == IF Called("count_uv") THEN tools_dir(env, platform).dir
             ELSE IF is_ok(cargo_home(env, platform))
                    THEN Some(cargo_home(env, platform).val
                                \o <<MAIN_SEPARATOR(platform), "bin">>)
                    ELSE None
  IN (Counted /\ (~is_some(dir) \/ ~Listable(fs, dir.val))) => ret.val = None

C5_Witness ==
  /\ Called("count_cargo")
  /\ is_some(ret.listed)
  /\ ret.listed.val \in DOMAIN fs
  /\ fs[ret.listed.val].mode = "noperm"
  /\ ret.val = None

\* C6: an XDG variable holding a relative path is skipped as if it were unset:
\* what the uv chain and user_executable_directory resolve is what they resolve
\* with the variable removed.
C6_RelativeXdgSkipped ==
  \A v \in {XDG_DATA_HOME, XDG_BIN_HOME} :
    (is_some(env[v]) /\ ~is_absolute(platform, env[v].val))
      => LET without == [env EXCEPT ![v] = None]
         IN /\ Called("user_executable_directory")
                 => ret.val = user_executable_directory(ret.arg, without, platform)
            /\ Called("count_uv")
                 => ret.listed = tools_dir(without, platform).dir

C6_Witness ==
  /\ Called("user_executable_directory")
  /\ env[XDG_BIN_HOME] = Some(<<"b">>)
  /\ env[XDG_DATA_HOME] = Some(<<"/", "x">>)
  /\ ret.val = Some(<<"/", "x", "/", "..", "/", "bin">>)

\* C7: with UV_TOOL_DIR set to the empty string, count_uv gives what it gives
\* with UV_TOOL_DIR unset.
C7_EmptyOverrideFallsThrough ==
  (Called("count_uv") /\ env["UV_TOOL_DIR"] = Some(<<>>))
    => ret.val = count_uv([env EXCEPT !["UV_TOOL_DIR"] = None], fs, platform).val

\* C8: with UV_TOOL_DIR unset, tools under the legacy layout are found: when
\* the preferred `tools` directory is missing or has no subdirectory and the
\* legacy one has N >= 1 subdirectories, count_uv returns N.
C8_LegacyLayoutFound ==
  LET pref == preferred_tools(env, platform)
      leg == legacy_tools(env, platform)
  IN (/\ Called("count_uv")
      /\ env["UV_TOOL_DIR"] = None
      /\ is_some(pref) /\ is_some(leg)
      /\ ~Listable(fs, pref.val) \/ Occurrences(fs[pref.val].entries, EntDir) = 0
      /\ Listable(fs, leg.val)
      /\ Occurrences(fs[leg.val].entries, EntDir) >= 1)
       => ret.val = Some(Occurrences(fs[leg.val].entries, EntDir))

\* the entries of a listing that were read without error and, for uv, whose
\* file type could be determined
ReadWell(f, entries) ==
  IF f = "count_uv" THEN Occurrences(entries, EntDir)
  ELSE Len(entries) - Occurrences(entries, EntErr)

\* C9: in both counters an entry that yields an error during iteration is
\* skipped: it adds nothing to the count and the call does not fail.
C9_ErrorsSkipped ==
  (Counted /\ is_some(ret.listed) /\ Listable(fs, ret.listed.val))
    => LET n == ReadWell(ret.fn, fs[ret.listed.val].entries)
       IN IF n = 0 THEN ret.val = None ELSE ret.val = Some(n)

====
